---- MODULE Spec2Model ----
(***************************************************************************)
(* rusty-diary: the versioned entry store (storage/db.rs, storage/mod.rs,  *)
(* storage/models.rs) and the synchronization engine (diary/mod.rs,        *)
(* diary/file.rs, diary/processor.rs).                                     *)
(*                                                                         *)
(* Text is a sequence of one-character strings.  The character "F" stands  *)
(* for one complete front-matter block ("---\ntags: ...\n---"), the only   *)
(* thing the regular expression of DiaryEntry::new matches.  Dates are     *)
(* small integers ordered as calendar dates are.  The timestamps           *)
(* created_at / updated_at are written and never read by any operation     *)
(* modelled here, and are left out of the rows.                            *)
(***************************************************************************)
EXTENDS Integers, Sequences, FiniteSets, Bags, TLC

VARIABLES
    entries,    \* table diary_entries: set of rows [exec_version, date, content]
    metadata,   \* table entry_metadata: bag of rows [exec_version, date, word_count]
    schema,     \* the schema of the database file: the tables and schema_migrations
    dir,        \* the diary directory: the matching files, in the order WalkDir yields them
    output,     \* the output file of the legacy merger: [exists, text]
    batch,      \* the entries a direct caller of the store has built for its next call
    conc,       \* the shared connection: its lock, its open transaction, the threads using it
    last,       \* what the last operation was given and what it returned
    hist        \* the versions used by the synchronize runs so far

vars == <<entries, metadata, schema, dir, output, batch, conc, last, hist>>

----------------------------------------------------------------------------
\* Bounds of the model.

MaxDate == 2        \* dates are 1..MaxDate
MaxFiles == 2       \* at most this many matching files in the directory
MaxRows == 4        \* rows in diary_entries plus pending files/batch entries
MaxBatch == 2       \* entries in one direct store_entries call
MaxOutput == 4      \* the merger runs while its output file is at most this long
MaxThreads == 2     \* threads sharing one DiaryRepository

Dates == 1..MaxDate

\* Raw file contents: "a\n", front matter followed by "a b", front matter
\* only, and blank.
RawTexts ==
    { <<"a", "\n">>,
      <<"F", "\n", "a", " ", "b">>,
      <<"F", "\n">>,
      <<" ", "\n">> }

----------------------------------------------------------------------------
Max(a, b) == IF a >= b THEN a ELSE b

\* Text helpers (std: char::is_whitespace, str::trim, str::lines,
\* str::split_whitespace).

IsWhitespace(c) == c \in {" ", "\n"}

TrimIsEmpty(t) == \A i \in 1..Len(t) : IsWhitespace(t[i])

RECURSIVE SkipWhitespace(_)
SkipWhitespace(t) ==
    IF t # <<>> /\ IsWhitespace(Head(t)) THEN SkipWhitespace(Tail(t)) ELSE t

\* metadata_pattern.replace(&content, ""): \A---...---\s* is removed when the
\* text starts with a front-matter block.
StripFrontMatter(t) ==
    IF t # <<>> /\ Head(t) = "F" THEN SkipWhitespace(Tail(t)) ELSE t

\* content.lines().collect::<Vec<&str>>().join("\n"): the terminator of the
\* last line is dropped, every other character is kept.
JoinLines(t) ==
    IF t # <<>> /\ t[Len(t)] = "\n" THEN SubSeq(t, 1, Len(t) - 1) ELSE t

\* content.split_whitespace().count()
WordCountOf(t) ==
    Cardinality({ i \in 1..Len(t) :
        /\ ~IsWhitespace(t[i])
        /\ (i = 1 \/ IsWhitespace(t[i - 1])) })

----------------------------------------------------------------------------
\* Entry model (storage/models.rs).

DiaryEntryNew(exec_version, date, content) ==
    [ exec_version |-> exec_version,
      date |-> date,
      content |-> JoinLines(StripFrontMatter(content)) ]

DiaryEntryEq(self, other) ==
    self.date = other.date /\ self.content = other.content

word_count(entry) == WordCountOf(entry.content)

EntryMetadataOf(entry) ==
    [ date |-> entry.date,
      word_count |-> word_count(entry),
      exec_version |-> entry.exec_version ]

----------------------------------------------------------------------------
\* Entry store (storage/db.rs).  A database is [entries, metadata].

MetaRow(entry) ==
    [ exec_version |-> entry.exec_version,
      date |-> entry.date,
      word_count |-> word_count(entry) ]

SameKey(r, entry) ==
    r.exec_version = entry.exec_version /\ r.date = entry.date

\* CascadeDelete with foreign keys not enforced.
CascadeDeleteNoFk(meta, entry) == meta

\* FOREIGN KEY (exec_version, date) ... ON DELETE CASCADE with
\* PRAGMA foreign_keys = ON: deleting an entry row deletes its metadata rows.
CascadeDelete(meta, entry) ==
    LET keep == { m \in DOMAIN meta : ~SameKey(m, entry) }
    IN  [ m \in keep |-> meta[m] ]

\* InsertOrReplaceEntry as a plain insert into a table without the key.
InsertNoReplaceEntry(db, entry) ==
    [ entries |-> db.entries \cup {entry}, metadata |-> db.metadata ]

\* INSERT OR REPLACE INTO diary_entries: the row holding the primary key
\* (exec_version, date) is deleted, then the new row is inserted.
InsertOrReplaceEntry(db, entry) ==
    [ entries |-> { r \in db.entries : ~SameKey(r, entry) } \cup {entry},
      metadata |-> CascadeDelete(db.metadata, entry) ]

\* INSERT OR REPLACE INTO entry_metadata (exec_version, date, word_count):
\* entry_id, the only key of the table, is assigned afresh, so no row is
\* ever replaced: one more row.
InsertMetadata(db, entry) ==
    [ entries |-> db.entries,
      metadata |-> db.metadata (+) SetToBag({MetaRow(entry)}) ]

\* store_entry_internal is two statements; statement number s of a batch is
\* the entry insert (s odd) or the metadata insert (s even) of entry (s+1)/2.
ExecStatement(db, entries_, s) ==
    LET entry == entries_[(s + 1) \div 2]
    IN  IF s % 2 = 1 THEN InsertOrReplaceEntry(db, entry)
        ELSE InsertMetadata(db, entry)

RECURSIVE RunStatements(_, _, _)
RunStatements(db, entries_, n) ==
    IF n = 0 THEN db
    ELSE ExecStatement(RunStatements(db, entries_, n - 1), entries_, n)

\* store_batch: one transaction.  failAt = 0: no statement fails;
\* failAt = s in 1..2N: statement s fails; failAt = 2N+1: the commit fails.
\* On a failure `?` returns, the transaction is dropped and rolls back.
FailPoints(entries_) == 1..(2 * Len(entries_) + 1)

\* store_batch without the rollback: the statements before the failing one
\* stay.
store_batch_partial(db, entries_, failAt) ==
    IF failAt \notin FailPoints(entries_)
    THEN [ result |-> "Ok", db |-> RunStatements(db, entries_, 2 * Len(entries_)) ]
    ELSE [ result |-> "Database",
           db |-> RunStatements(db, entries_, IF failAt > 2 * Len(entries_)
                                               THEN 2 * Len(entries_) ELSE failAt - 1) ]

store_batch(db, entries_, failAt) ==
    IF failAt \notin FailPoints(entries_)
    THEN [ result |-> "Ok", db |-> RunStatements(db, entries_, 2 * Len(entries_)) ]
    ELSE [ result |-> "Database", db |-> db ]

\* get_latest_exec_version with COUNT(*) and with MIN for MAX.
get_latest_exec_version_count(db) == Cardinality(db.entries)

get_latest_exec_version_min(db) ==
    IF db.entries = {} THEN 0
    ELSE CHOOSE v \in { r.exec_version : r \in db.entries } :
            \A r \in db.entries : r.exec_version >= v

\* SELECT COALESCE(MAX(exec_version), 0) FROM diary_entries
get_latest_exec_version(db) ==
    IF db.entries = {} THEN 0
    ELSE CHOOSE v \in { r.exec_version : r \in db.entries } :
            \A r \in db.entries : r.exec_version <= v

\* ORDER BY date DESC, exec_version DESC (date_desc) and
\* ORDER BY 1, 3 DESC: date ascending, exec_version descending (~date_desc).
ComesBefore(r, s, date_desc) ==
    \/ (IF date_desc THEN r.date > s.date ELSE r.date < s.date)
    \/ r.date = s.date /\ r.exec_version >= s.exec_version

RECURSIVE OrderBy(_, _)
OrderBy(rows, date_desc) ==
    IF rows = {} THEN <<>>
    ELSE LET first == CHOOSE r \in rows : \A s \in rows : ComesBefore(r, s, date_desc)
         IN  <<first>> \o OrderBy(rows \ {first}, date_desc)

\* Between with the bounds excluded.
BetweenExclusive(date, start_date, end_date) ==
    start_date < date /\ date < end_date

\* WHERE date BETWEEN ?1 AND ?2
Between(date, start_date, end_date) ==
    start_date <= date /\ date <= end_date

get_entries_by_date_range(db, start_date, end_date) ==
    OrderBy({ r \in db.entries : Between(r.date, start_date, end_date) },
            TRUE)

get_entries_by_exec_version(db, exec_version) ==
    OrderBy({ r \in db.entries : r.exec_version = exec_version }, TRUE)

\* diary_entries e JOIN entry_metadata m ON the key: one record per pair.
RECURSIVE Repeat(_, _)
Repeat(x, n) == IF n = 0 THEN <<>> ELSE <<x>> \o Repeat(x, n - 1)

RECURSIVE Concat(_)
Concat(ss) == IF ss = <<>> THEN <<>> ELSE Head(ss) \o Concat(Tail(ss))

JoinedWith(db, e) ==
    LET ms == OrderBy({ m \in DOMAIN db.metadata : SameKey(m, e) }, FALSE)
    IN  Concat([ i \in 1..Len(ms) |->
                   Repeat([ date |-> e.date,
                            word_count |-> ms[i].word_count,
                            exec_version |-> e.exec_version ],
                          db.metadata[ms[i]]) ])

get_metadata(db) ==
    LET es == OrderBy(db.entries, FALSE)
    IN  Concat([ i \in 1..Len(es) |-> JoinedWith(db, es[i]) ])

----------------------------------------------------------------------------
\* Opening the store (DiaryRepository::new, migrate).  Here a database is
\* [entries, metadata, schema]; schema is [table, versions, tables]: whether
\* schema_migrations exists, the bag of its rows, and the data tables created.

\* MIGRATIONS: the table each migration creates, with IF NOT EXISTS.
MIGRATIONS == << "diary_entries", "entry_metadata" >>

NoDatabase ==
    [ entries |-> {}, metadata |-> EmptyBag,
      schema |-> [ table |-> FALSE, versions |-> EmptyBag, tables |-> {} ] ]

\* The environment of one open: the call that fails.  "open": opening the
\* connection or the PRAGMAs; "create": CREATE TABLE schema_migrations;
\* "current": the version query; "ddl", "insert": a statement of migration n;
\* "commit".
NoFault == [ at |-> "none", n |-> 0 ]

OpenEnvs ==
    { [ at |-> a, n |-> 0 ] : a \in {"none", "open", "create", "current", "commit"} }
    \cup { [ at |-> a, n |-> i ] : a \in {"ddl", "insert"}, i \in 1..Len(MIGRATIONS) }

\* current_version that assumes a store never migrated.
current_version_zero(sch) == 0

\* SELECT COALESCE(MAX(version), 0) FROM schema_migrations
current_version(sch) ==
    IF BagToSet(sch.versions) = {} THEN 0
    ELSE CHOOSE v \in BagToSet(sch.versions) :
            \A w \in BagToSet(sch.versions) : w <= v

\* CREATE TABLE IF NOT EXISTS: a table that exists is left alone with its
\* rows; a new table has no row.
CreateTableIfNotExists(db, t) ==
    IF t \in db.schema.tables THEN db
    ELSE [ entries |-> IF t = "diary_entries" THEN {} ELSE db.entries,
           metadata |-> IF t = "entry_metadata" THEN EmptyBag ELSE db.metadata,
           schema |-> [ db.schema EXCEPT !.tables = @ \cup {t} ] ]

\* One turn of the loop over MIGRATIONS, on [ok, db, applied].  version is a
\* PRIMARY KEY: inserting an ordinal the table holds fails.
ApplyMigration(acc, version, current, env) ==
    IF ~acc.ok \/ ~(version > current) THEN acc
    ELSE IF env = [ at |-> "ddl", n |-> version ] THEN [ acc EXCEPT !.ok = FALSE ]
    ELSE IF \/ env = [ at |-> "insert", n |-> version ]
            \/ BagIn(version, acc.db.schema.versions)
         THEN [ acc EXCEPT !.ok = FALSE ]
    ELSE LET created == CreateTableIfNotExists(acc.db, MIGRATIONS[version])
         IN  [ ok |-> TRUE,
               db |-> [ created EXCEPT !.schema.versions = @ (+) SetToBag({version}) ],
               applied |-> Append(acc.applied, version) ]

\* migrate without the transaction: what was applied before the failure
\* stays.
migrate_partial(db, env) ==
    IF env.at \in {"open", "create"}
    THEN [ result |-> "Database", db |-> db, applied |-> <<>> ]
    ELSE
    LET db1 == [ db EXCEPT !.schema.table = TRUE ]
        current == current_version(db1.schema)
        F[i \in 0..Len(MIGRATIONS)] ==
            IF i = 0 THEN [ ok |-> TRUE, db |-> db1, applied |-> <<>> ]
            ELSE ApplyMigration(F[i - 1], i, current, env)
        done == F[Len(MIGRATIONS)]
    IN  IF env.at = "current"
        THEN [ result |-> "Database", db |-> db1, applied |-> <<>> ]
        ELSE IF ~done.ok \/ env.at = "commit"
        THEN [ result |-> "Database", db |-> done.db, applied |-> <<>> ]
        ELSE [ result |-> "Ok", db |-> done.db, applied |-> done.applied ]

\* migrate, after DiaryRepository::new has opened the connection: the
\* bookkeeping table is created outside the transaction and stays when the
\* transaction is rolled back.
migrate(db, env) ==
    IF env.at \in {"open", "create"}
    THEN [ result |-> "Database", db |-> db, applied |-> <<>> ]
    ELSE
    LET db1 == [ db EXCEPT !.schema.table = TRUE ]
        current == current_version(db1.schema)
        F[i \in 0..Len(MIGRATIONS)] ==
            IF i = 0 THEN [ ok |-> TRUE, db |-> db1, applied |-> <<>> ]
            ELSE ApplyMigration(F[i - 1], i, current, env)
        done == F[Len(MIGRATIONS)]
    IN  IF env.at = "current" \/ ~done.ok \/ env.at = "commit"
        THEN [ result |-> "Database", db |-> db1, applied |-> <<>> ]
        ELSE [ result |-> "Ok", db |-> done.db, applied |-> done.applied ]

----------------------------------------------------------------------------
\* The shared connection (conn: Arc<RwLock<Connection>>, parking_lot).  A lock
\* is [writer, readers]: the thread holding it exclusively (0: none) and the
\* threads holding it shared.  An acquisition is [ok, lock]: whether it can
\* be granted now, and the lock once granted.

Threads == 1..MaxThreads

\* RwLock::write
RwLockWrite(lock, t) ==
    [ ok |-> lock.writer = 0 /\ lock.readers = {},
      lock |-> [ lock EXCEPT !.writer = t ] ]

\* RwLock::read
RwLockRead(lock, t) ==
    [ ok |-> lock.writer = 0,
      lock |-> [ lock EXCEPT !.readers = @ \cup {t} ] ]

\* The guard is dropped.
RwLockRelease(lock, t) ==
    [ writer |-> IF lock.writer = t THEN 0 ELSE lock.writer,
      readers |-> lock.readers \ {t} ]

\* store_batch taking the lock shared.
store_batch_acquire_shared(lock, t) == RwLockRead(lock, t)

\* store_batch: `let mut conn = self.conn.write();`
store_batch_acquire(lock, t) == RwLockWrite(lock, t)

\* The queries: `self.conn.read()`
query_acquire(lock, t) == RwLockRead(lock, t)

\* What a query of the kind returns on the database db.
RunQuery(kind, db) ==
    IF kind = "range" THEN get_entries_by_date_range(db, 1, MaxDate)
    ELSE IF kind = "version" THEN << get_latest_exec_version(db) >>
    ELSE get_metadata(db)

IdleThread == [ pc |-> "idle", kind |-> "none", n |-> 0, entries |-> <<>>, seen |-> <<>> ]

\* No thread uses the connection.
Quiet ==
    [ lock |-> [ writer |-> 0, readers |-> {} ],
      tx |-> [ open |-> FALSE, db |-> [ entries |-> {}, metadata |-> EmptyBag ] ],
      th |-> [ t \in Threads |-> IdleThread ] ]

\* What a statement on the connection sees: the rows of the open
\* transaction, or the committed rows.
Visible(c, db) == IF c.tx.open THEN c.tx.db ELSE db

----------------------------------------------------------------------------
\* Storage manager (storage/mod.rs).

validate_entry(entry) == ~TrimIsEmpty(entry.content)

\* store_entries without the validation loop.
store_entries_unvalidated(db, entries_, failAt) == store_batch(db, entries_, failAt)

\* store_entries: every entry is validated before the batch is stored.
store_entries(db, entries_, failAt) ==
    IF \E i \in 1..Len(entries_) : ~validate_entry(entries_[i])
    THEN [ result |-> "ContentIntegrity", db |-> db ]
    ELSE store_batch(db, entries_, failAt)

----------------------------------------------------------------------------
\* Filesystem collaborator (diary/file.rs, diary/processor.rs).  A file is
\* [date, raw]: the date extract_date reads from its name, and its text.

Files == [ date : Dates, raw : RawTexts ]

\* collect_diary_files without the test for an empty collection.
collect_diary_files_unchecked(d) == [ result |-> "Ok", files |-> d ]

\* collect_diary_files: the matching files in directory order, unsorted.
collect_diary_files(d) ==
    IF d = <<>> THEN [ result |-> "NoFilesFound", files |-> <<>> ]
    ELSE [ result |-> "Ok", files |-> d ]

validate_content(content) == ~TrimIsEmpty(content)

\* process_single_file fails (ContentIntegrity) on blank text; the date was
\* already extracted once by is_valid_diary_file.
process_single_file_ok(file) == validate_content(file.raw)

\* process_files: the entries of the files that could be processed, in the
\* order of the files; the errors are logged and dropped.
process_files(files, exec_version) ==
    LET good == SelectSeq(files, process_single_file_ok)
    IN  [ i \in 1..Len(good) |-> DiaryEntryNew(exec_version, good[i].date, good[i].raw) ]

\* cleanup_files returning at the first removal that fails: that file and
\* the files after it stay.
cleanup_files_stops(d, stuck) ==
    LET F[i \in 0..Len(d)] ==
            IF i = 0 THEN <<>>
            ELSE IF \E k \in stuck : k <= i THEN Append(F[i - 1], d[i]) ELSE F[i - 1]
    IN  F[Len(d)]

\* cleanup_files: remove_file on every collected file; a failure is logged.
\* stuck is the set of positions whose removal fails.
cleanup_files(d, stuck) ==
    LET Keep(i) == i \in stuck
        F[i \in 0..Len(d)] ==
            IF i = 0 THEN <<>>
            ELSE IF Keep(i) THEN Append(F[i - 1], d[i]) ELSE F[i - 1]
    IN  F[Len(d)]

----------------------------------------------------------------------------
\* Synchronization engine (diary/mod.rs).

\* The environment of one run: which database call fails, if any, and which
\* removals fail.
\*   fault = "none" | "latest" | "range" | "store"; failAt as in store_batch.
SyncEnvs(d, new_entries) ==
    { [ fault |-> f, failAt |-> 0, stuck |-> {} ] : f \in {"latest", "range"} }
    \cup { [ fault |-> "store", failAt |-> k, stuck |-> {} ] : k \in FailPoints(new_entries) }
    \cup { [ fault |-> "none", failAt |-> 0, stuck |-> K ] : K \in SUBSET (1..Len(d)) }

Outcome(result, db, d, exec_version, file_entries, start_date, end_date, new_entries) ==
    [ result |-> result, db |-> db, dir |-> d, exec_version |-> exec_version,
      file_entries |-> file_entries, start_date |-> start_date, end_date |-> end_date,
      new_entries |-> new_entries ]

IsStored(stored_entries, entry) ==
    \E i \in 1..Len(stored_entries) :
        stored_entries[i].date = entry.date /\ stored_entries[i].content = entry.content

\* SyncPlan with the unfiltered entries handed to store_entries.
SyncPlanStoresAll(db, d) ==
    LET collected == collect_diary_files(d)
        exec_version == get_latest_exec_version(db) + 1
        file_entries == process_files(collected.files, exec_version)
        some == file_entries # <<>>
        start_date == IF some THEN file_entries[Len(file_entries)].date ELSE 0
        end_date == IF some THEN file_entries[1].date ELSE 0
        stored_entries == IF some THEN get_entries_by_date_range(db, start_date, end_date)
                          ELSE <<>>
        NotStored(entry) == ~IsStored(stored_entries, entry)
        new_entries == SelectSeq(file_entries, NotStored)
    IN  [ collected |-> collected, exec_version |-> exec_version,
          file_entries |-> file_entries,
          start_date |-> start_date, end_date |-> end_date,
          new_entries |-> new_entries,
          stored |-> store_entries(db, file_entries, 0) ]

\* The calls of one run in the order of the code, none of them failing:
\* collect, version, materialize, overlap fetch, filter, store.
SyncPlan(db, d) ==
    LET collected == collect_diary_files(d)
        exec_version == get_latest_exec_version(db) + 1
        file_entries == process_files(collected.files, exec_version)
        some == file_entries # <<>>
        start_date == IF some THEN file_entries[Len(file_entries)].date ELSE 0
        end_date == IF some THEN file_entries[1].date ELSE 0
        stored_entries == IF some THEN get_entries_by_date_range(db, start_date, end_date)
                          ELSE <<>>
        NotStored(entry) == ~IsStored(stored_entries, entry)
        new_entries == SelectSeq(file_entries, NotStored)
    IN  [ collected |-> collected, exec_version |-> exec_version,
          file_entries |-> file_entries,
          start_date |-> start_date, end_date |-> end_date,
          new_entries |-> new_entries,
          stored |-> store_entries(db, new_entries, 0) ]

\* The run in environment env: where it returns, and with what.
SyncReturn(p, db, d, env) ==
    IF p.collected.result # "Ok"
    THEN Outcome(p.collected.result, db, d, 0, <<>>, 0, 0, <<>>)
    ELSE IF env.fault = "latest"
    THEN Outcome("Database", db, d, 0, <<>>, 0, 0, <<>>)
    ELSE IF p.file_entries = <<>>
    THEN Outcome("Panic", db, d, p.exec_version, <<>>, 0, 0, <<>>)
    ELSE IF env.fault = "range"
    THEN Outcome("Database", db, d, p.exec_version, p.file_entries,
                 p.start_date, p.end_date, <<>>)
    ELSE
    LET stored == IF env.fault = "store"
                  THEN store_entries(db, p.new_entries, env.failAt)
                  ELSE p.stored
    IN
    IF stored.result # "Ok"
    THEN Outcome(stored.result, stored.db, d, p.exec_version, p.file_entries,
                 p.start_date, p.end_date, <<>>)
    ELSE Outcome("Ok", stored.db, cleanup_files(p.collected.files, env.stuck),
                 p.exec_version, p.file_entries, p.start_date, p.end_date,
                 p.new_entries)

synchronize(db, d, env) == SyncReturn(SyncPlan(db, d), db, d, env)

----------------------------------------------------------------------------
\* Legacy file merger (main.rs).  Its directory holds files [date, raw] under
\* pairwise different names: date is the file name, 0 standing for a name the
\* date pattern does not match.  With Config::default() the output file,
\* writing-log.md, is not such a name.

\* Config::default().separator, "\n***\n"
Separator == << "\n", "*", "*", "*", "\n" >>

MergeTexts == { <<"a">>, <<"b", "\n">> }

MergeFiles == [ date : {0} \cup Dates, raw : MergeTexts ]

NoOutput == [ exists |-> FALSE, text |-> <<>> ]

\* path.is_file() && date_pattern.is_match(filename)
Matches(file) == file.date \in Dates

\* files.sort_by(|a, b| b.cmp(a))
RECURSIVE SortDescending(_)
SortDescending(files) ==
    IF files = <<>> THEN <<>>
    ELSE LET top == CHOOSE i \in 1..Len(files) :
                        \A j \in 1..Len(files) : files[j].date <= files[i].date
             rest == [ i \in 1..(Len(files) - 1) |->
                         IF i < top THEN files[i] ELSE files[i + 1] ]
         IN  <<files[top]>> \o SortDescending(rest)

\* collect_files without the test for an empty collection.
collect_files_unchecked(d) ==
    [ result |-> "Ok", files |-> SortDescending(SelectSeq(d, Matches)) ]

collect_files(d) ==
    IF SelectSeq(d, Matches) = <<>>
    THEN [ result |-> "NoFilesFound", files |-> <<>> ]
    ELSE [ result |-> "Ok", files |-> SortDescending(SelectSeq(d, Matches)) ]

\* merge_files: the output file is read, truncated by File::create, and
\* written: each file followed by a line terminator (writeln!), the separator
\* after every file but the last, then the text it held.  readable: whether
\* read_to_string of the output file succeeds; any error of it, not only a
\* missing file, gives the empty string (unwrap_or_else).  failRead = k:
\* reading file k fails, and the output file is left with what was written
\* before.
merge_files(out, files, readable, failRead) ==
    LET existing_content == IF out.exists /\ readable THEN out.text ELSE <<>>
        W[i \in 0..Len(files)] ==
            IF i = 0 THEN <<>>
            ELSE W[i - 1] \o files[i].raw \o <<"\n">>
                   \o (IF i < Len(files) THEN Separator ELSE <<>>)
    IN  IF failRead \in 1..Len(files)
        THEN [ result |-> "Io", output |-> [ exists |-> TRUE, text |-> W[failRead - 1] ] ]
        ELSE [ result |-> "Ok",
               output |-> [ exists |-> TRUE, text |-> W[Len(files)] \o existing_content ] ]

\* FileMerger::cleanup_files: the files are removed in order; the first
\* removal that fails (failRemove) ends the run with CleanupError.
merger_cleanup_files(d, files, failRemove) ==
    LET gone == { files[i].date : i \in { k \in 1..Len(files) :
                      failRemove \notin 1..Len(files) \/ k < failRemove } }
        Stays(file) == file.date \notin gone
    IN  [ result |-> IF failRemove \in 1..Len(files) THEN "CleanupError" ELSE "Ok",
          dir |-> SelectSeq(d, Stays) ]

\* The environment of one run of the merger: the call that fails.
\*   "directory": the path is not a directory; "read_dir": it cannot be
\*   listed; "read_output": the output file exists and cannot be read as text;
\*   "create": File::create; "read" n, "remove" n: file n of the collected.
MergeEnvs(d, out) ==
    { [ fault |-> f, n |-> 0 ] : f \in {"none", "directory", "read_dir", "create"} }
    \cup { [ fault |-> "read_output", n |-> 0 ] : x \in { o \in {out} : o.exists } }
    \cup { [ fault |-> f, n |-> k ] : f \in {"read", "remove"},
                                      k \in 1..Len(SelectSeq(d, Matches)) }

\* FileMerger::run
run(d, out, env) ==
    IF env.fault = "directory"
    THEN [ result |-> "InvalidDirectory", dir |-> d, output |-> out, files |-> <<>> ]
    ELSE IF env.fault = "read_dir"
    THEN [ result |-> "Io", dir |-> d, output |-> out, files |-> <<>> ]
    ELSE
    LET collected == collect_files(d)
        files == collected.files
        merged == merge_files(out, files, env.fault # "read_output",
                              IF env.fault = "read" THEN env.n ELSE 0)
        cleaned == merger_cleanup_files(d, files, IF env.fault = "remove" THEN env.n ELSE 0)
    IN  IF collected.result # "Ok"
        THEN [ result |-> collected.result, dir |-> d, output |-> out, files |-> <<>> ]
        ELSE IF env.fault = "create"
        THEN [ result |-> "Io", dir |-> d, output |-> out, files |-> files ]
        ELSE IF merged.result # "Ok"
        THEN [ result |-> merged.result, dir |-> d, output |-> merged.output, files |-> files ]
        ELSE [ result |-> cleaned.result, dir |-> cleaned.dir, output |-> merged.output,
               files |-> files ]

----------------------------------------------------------------------------
\* The state machine.

Db == [ entries |-> entries, metadata |-> metadata ]

NoOp ==
    [ op |-> "none", result |-> "Ok", exec_version |-> 0,
      start_date |-> 0, end_date |-> 0, materialized |-> 0,
      persisted |-> 0, removed |-> 0,
      given |-> 0, replaced |-> FALSE,
      fault |-> "none", applied |-> <<>> ]

Init ==
    /\ entries = {}
    /\ metadata = EmptyBag
    /\ schema = migrate(NoDatabase, NoFault).db.schema
    /\ dir = <<>>
    /\ output = NoOutput
    /\ conc = Quiet
    /\ batch = <<>>
    /\ last = NoOp
    /\ hist = [ used |-> 0, stored |-> 0 ]

\* The user writes one more diary file.  WalkDir yields the files in no
\* particular order: every order of every set of files is reached by writing
\* them in that order.
WriteFile(file) ==
    /\ Len(dir) < MaxFiles
    /\ Cardinality(entries) + Len(dir) < MaxRows
    /\ dir' = Append(dir, file)
    /\ last' = [ NoOp EXCEPT !.op = "write" ]
    /\ UNCHANGED <<entries, metadata, schema, output, batch, hist, conc>>

\* One run of RustyDiary::synchronize.
Synchronize(plan, env) ==
    /\ Cardinality(entries) + Len(dir) <= MaxRows
    /\ UNCHANGED <<schema, output, batch, conc>>
    /\ \E o \in { SyncReturn(plan, Db, dir, env) } :
           /\ entries' = o.db.entries
           /\ metadata' = o.db.metadata
           /\ dir' = o.dir
           /\ last' = [ NoOp EXCEPT !.op = "sync", !.result = o.result,
                        !.exec_version = o.exec_version,
                        !.start_date = o.start_date, !.end_date = o.end_date,
                        !.materialized = Len(o.file_entries),
                        !.persisted = Len(o.new_entries),
                        !.removed = Len(dir) - Len(o.dir),
                        !.fault = env.fault ]
           /\ hist' = [ used |-> Max(hist.used, o.exec_version),
                        stored |-> IF o.new_entries # <<>>
                                   THEN Max(hist.stored, o.exec_version)
                                   ELSE hist.stored ]

Next ==
    \/ \E file \in Files : WriteFile(file)
    \/ \E plan \in { SyncPlan(Db, dir) } :
          \E env \in SyncEnvs(dir, plan.new_entries) : Synchronize(plan, env)

Spec == Init /\ [][Next]_vars

----------------------------------------------------------------------------
\* The store used directly: a caller builds entries with DiaryEntry::new, at
\* the latest version of the store (a re-insert) or at the next one, and
\* hands them to StorageManager::store_entries in one batch.

BatchTexts == { <<"a", "\n">>, <<"F", "\n", "a", " ", "b">>, <<"F", "\n">> }

BatchVersions(db) ==
    { Max(get_latest_exec_version(db), 1), get_latest_exec_version(db) + 1 }

NewEntry(exec_version, date, content) ==
    /\ Len(batch) < MaxBatch
    /\ Cardinality(entries) + Len(batch) < MaxRows - 1
    /\ batch' = Append(batch, DiaryEntryNew(exec_version, date, content))
    /\ last' = [ NoOp EXCEPT !.op = "new" ]
    /\ UNCHANGED <<entries, metadata, schema, dir, output, hist, conc>>

Range(q) == { q[i] : i \in 1..Len(q) }

\* The entries of a batch that no later entry of the batch has the key of.
LastWrites(entries_) ==
    { entries_[i] : i \in { k \in 1..Len(entries_) :
        \A j \in (k + 1)..Len(entries_) : ~SameKey(entries_[j], entries_[k]) } }

\* The batch writes another content under a key the store holds.
Replaces(db, entries_) ==
    \E e \in LastWrites(entries_) :
        \E r \in db.entries : SameKey(r, e) /\ r.content # e.content

\* One call of StorageManager::store_entries with the batch built.
StoreEntries(failAt) ==
    /\ \E r \in { store_entries(Db, batch, failAt) } :
           /\ entries' = r.db.entries
           /\ metadata' = r.db.metadata
           /\ last' = [ NoOp EXCEPT !.op = "store", !.result = r.result,
                                    !.given = Len(batch),
                                    !.replaced = Replaces(Db, batch) ]
    /\ batch' = <<>>
    /\ UNCHANGED <<schema, dir, output, hist, conc>>

NextStore ==
    \/ \E exec_version \in BatchVersions(Db), date \in Dates, content \in BatchTexts :
          NewEntry(exec_version, date, content)
    \/ \E failAt \in {0} \cup FailPoints(batch) : StoreEntries(failAt)

SpecStore == Init /\ [][NextStore]_vars

----------------------------------------------------------------------------
\* The legacy merger: the user writes files into the directory and runs the
\* merger over it.

WriteMergeFile(file) ==
    /\ Len(dir) < MaxFiles
    /\ \A i \in 1..Len(dir) : dir[i].date # file.date
    /\ dir' = Append(dir, file)
    /\ last' = [ NoOp EXCEPT !.op = "write" ]
    /\ UNCHANGED <<entries, metadata, schema, output, batch, hist, conc>>

Run(env) ==
    /\ Len(output.text) <= MaxOutput
    /\ \E r \in { run(dir, output, env) } :
           /\ dir' = r.dir
           /\ output' = r.output
           /\ last' = [ NoOp EXCEPT !.op = "merge", !.result = r.result,
                                    !.fault = env.fault,
                                    !.given = Len(r.files),
                                    !.removed = Len(dir) - Len(r.dir) ]
    /\ UNCHANGED <<entries, metadata, schema, batch, hist, conc>>

NextMerge ==
    \/ \E file \in MergeFiles : WriteMergeFile(file)
    \/ \E env \in MergeEnvs(dir, output) : Run(env)

SpecMerge == Init /\ [][NextMerge]_vars

----------------------------------------------------------------------------
\* The store shared by threads: each thread stores batches and runs queries
\* on the one connection.  A batch is one entry per date at the next version.

ThreadBatch(db) ==
    [ i \in 1..MaxDate |-> DiaryEntryNew(get_latest_exec_version(db) + 1, i, <<"a", "\n">>) ]

\* store_batch up to conn.transaction(): the lock is taken, the transaction
\* begun.
BeginStore(t) ==
    /\ conc.th[t].pc = "idle"
    /\ Cardinality(entries) + MaxDate <= MaxRows
    /\ \E acq \in { store_batch_acquire(conc.lock, t) } :
           /\ acq.ok
           /\ conc' = [ conc EXCEPT
                 !.lock = acq.lock,
                 !.tx = IF conc.tx.open THEN conc.tx ELSE [ open |-> TRUE, db |-> Db ],
                 !.th[t] = [ IdleThread EXCEPT !.pc = "storing",
                                               !.entries = ThreadBatch(Visible(conc, Db)) ] ]
    /\ last' = [ NoOp EXCEPT !.op = "begin" ]
    /\ UNCHANGED <<entries, metadata, schema, dir, output, batch, hist>>

\* One statement of store_entry_internal on the transaction.
Statement(t) ==
    /\ conc.th[t].pc = "storing"
    /\ conc.th[t].n < 2 * Len(conc.th[t].entries)
    /\ conc' = [ conc EXCEPT
          !.tx.db = ExecStatement(conc.tx.db, conc.th[t].entries, conc.th[t].n + 1),
          !.th[t].n = @ + 1 ]
    /\ last' = [ NoOp EXCEPT !.op = "statement" ]
    /\ UNCHANGED <<entries, metadata, schema, dir, output, batch, hist>>

\* The next statement, or the commit, fails: `?` returns, the transaction
\* and the guard are dropped.
FailStore(t) ==
    /\ conc.th[t].pc = "storing"
    /\ conc' = [ conc EXCEPT
          !.lock = RwLockRelease(conc.lock, t),
          !.tx = [ open |-> FALSE, db |-> Db ],
          !.th[t] = IdleThread ]
    /\ last' = [ NoOp EXCEPT !.op = "rollback", !.result = "Database" ]
    /\ UNCHANGED <<entries, metadata, schema, dir, output, batch, hist>>

\* tx.commit() and the return of store_batch.
Commit(t) ==
    /\ conc.th[t].pc = "storing"
    /\ conc.th[t].n = 2 * Len(conc.th[t].entries)
    /\ entries' = conc.tx.db.entries
    /\ metadata' = conc.tx.db.metadata
    /\ conc' = [ conc EXCEPT
          !.lock = RwLockRelease(conc.lock, t),
          !.tx = [ open |-> FALSE, db |-> conc.tx.db ],
          !.th[t] = IdleThread ]
    /\ last' = [ NoOp EXCEPT !.op = "commit" ]
    /\ UNCHANGED <<schema, dir, output, batch, hist>>

\* A query takes the lock.
BeginRead(t, kind) ==
    /\ conc.th[t].pc = "idle"
    /\ \E acq \in { query_acquire(conc.lock, t) } :
           /\ acq.ok
           /\ conc' = [ conc EXCEPT
                 !.lock = acq.lock,
                 !.th[t] = [ IdleThread EXCEPT !.pc = "reading", !.kind = kind ] ]
    /\ last' = [ NoOp EXCEPT !.op = "read" ]
    /\ UNCHANGED <<entries, metadata, schema, dir, output, batch, hist>>

\* The query runs on the connection.
Query(t) ==
    /\ conc.th[t].pc = "reading"
    /\ conc' = [ conc EXCEPT
          !.th[t].pc = "read",
          !.th[t].seen = RunQuery(conc.th[t].kind, Visible(conc, Db)) ]
    /\ last' = [ NoOp EXCEPT !.op = "query" ]
    /\ UNCHANGED <<entries, metadata, schema, dir, output, batch, hist>>

\* The query returns: the guard is dropped.
EndRead(t) ==
    /\ conc.th[t].pc = "read"
    /\ conc' = [ conc EXCEPT
          !.lock = RwLockRelease(conc.lock, t),
          !.th[t] = IdleThread ]
    /\ last' = [ NoOp EXCEPT !.op = "return" ]
    /\ UNCHANGED <<entries, metadata, schema, dir, output, batch, hist>>

NextThreads ==
    \E t \in Threads :
        \/ BeginStore(t)
        \/ Statement(t)
        \/ FailStore(t)
        \/ Commit(t)
        \/ \E kind \in {"range", "version", "metadata"} : BeginRead(t, kind)
        \/ Query(t)
        \/ EndRead(t)

SpecThreads == Init /\ [][NextThreads]_vars

----------------------------------------------------------------------------
\* The store opened and reopened: a database file that does not exist yet is
\* opened, written to by direct callers, and opened again by later processes.

InitOpen ==
    /\ entries = NoDatabase.entries
    /\ metadata = NoDatabase.metadata
    /\ schema = NoDatabase.schema
    /\ dir = <<>>
    /\ output = NoOutput
    /\ conc = Quiet
    /\ batch = <<>>
    /\ last = NoOp
    /\ hist = [ used |-> 0, stored |-> 0 ]

\* One call of DiaryRepository::new on the database file.
Open(env) ==
    /\ \E r \in { migrate([ entries |-> entries, metadata |-> metadata, schema |-> schema ], env) } :
           /\ entries' = r.db.entries
           /\ metadata' = r.db.metadata
           /\ schema' = r.db.schema
           /\ last' = [ NoOp EXCEPT !.op = "open", !.result = r.result,
                                    !.fault = env.at, !.applied = r.applied ]
    /\ batch' = <<>>
    /\ UNCHANGED <<dir, output, hist, conc>>

\* The store is usable once an open has succeeded.
Opened == current_version(schema) = Len(MIGRATIONS)

NextOpen ==
    \/ \E env \in OpenEnvs : Open(env)
    \/ /\ Opened
       /\ \E exec_version \in BatchVersions(Db), date \in Dates, content \in BatchTexts :
             NewEntry(exec_version, date, content)
    \/ /\ Opened
       /\ \E failAt \in {0} \cup FailPoints(batch) : StoreEntries(failAt)

SpecOpen == InitOpen /\ [][NextOpen]_vars

----------------------------------------------------------------------------
\* Properties of the synchronization engine (checked under Spec).

DistinctDates(d) ==
    \A i, j \in 1..Len(d) : i # j => d[i].date # d[j].date

\* The entries a run at version v materializes from the directory d.
Materialized(d, v) == Range(process_files(d, v))

\* C1: idempotence: a run that succeeds on the same, unchanged files as the
\* successful run before it (nothing was removed in between) adds no row.
\* Stated for directories whose files carry pairwise different dates.
C1_Idempotent ==
    [][ ( /\ last.op = "sync" /\ last.result = "Ok" /\ last.removed = 0
          /\ last'.op = "sync" /\ last'.result = "Ok"
          /\ DistinctDates(dir) )
        => entries' = entries ]_vars

\* C2: deduplication rule: in a successful run a materialized entry is
\* persisted if and only if no previously stored entry has its (date, content)
\* pair (such an entry lies in the span [min date, max date] of the run).
\* Stated for directories whose files carry pairwise different dates.
C2_PersistedIffNotStored ==
    [][ ( last'.op = "sync" /\ last'.result = "Ok" /\ DistinctDates(dir) )
        => \A e \in Materialized(dir, last'.exec_version) :
              (e \in entries' \ entries)
                  <=> ~(\E r \in entries : DiaryEntryEq(r, e)) ]_vars

\* C3: when the store holds an entry of date d and a successful run
\* materializes a file of date d: if no stored entry of d has the file's
\* content the run inserts exactly one row for d, at its version and with that
\* content; if one has, it inserts no row for d.
\* Stated for directories whose files carry pairwise different dates.
C3_OneNewVersionRow ==
    [][ ( last'.op = "sync" /\ last'.result = "Ok" /\ DistinctDates(dir) )
        => \A e \in Materialized(dir, last'.exec_version) :
              LET inserted == { r \in entries' \ entries : r.date = e.date }
              IN  (\E r \in entries : r.date = e.date)
                  => IF \E r \in entries : DiaryEntryEq(r, e)
                     THEN inserted = {}
                     ELSE inserted = {e} ]_vars

\* C4 as claimed: the version a run uses is latest_exec_version() + 1 and is
\* strictly greater than the version of every earlier run.
C4_StrictlyIncreasing ==
    [][ ( last'.op = "sync" /\ last'.exec_version > 0 )
        => /\ last'.exec_version = get_latest_exec_version(Db) + 1
           /\ last'.exec_version > hist.used ]_vars

\* C4 as amended: the version a run uses is latest_exec_version() + 1, is
\* never smaller than the version of an earlier run, and is strictly greater
\* than the version of every earlier run that persisted a row.
C4_Monotone ==
    [][ ( last'.op = "sync" /\ last'.exec_version > 0 )
        => /\ last'.exec_version = get_latest_exec_version(Db) + 1
           /\ last'.exec_version >= hist.used
           /\ last'.exec_version > hist.stored ]_vars

\* A run has persisted rows at a version above the first.
C4_Witness ==
    /\ last.op = "sync" /\ last.result = "Ok" /\ last.persisted > 0
    /\ last.exec_version >= 2
    /\ hist.stored = last.exec_version

\* C5 as claimed: after a successful run that persisted nothing,
\* latest_exec_version() is greater than before the run (the run was given
\* latest_exec_version() + 1).
C5_Advances ==
    ( last.op = "sync" /\ last.result = "Ok" /\ last.persisted = 0 )
        => get_latest_exec_version(Db) > last.exec_version - 1

\* C5 as amended: after a successful run that persisted nothing,
\* latest_exec_version() is what it was before the run.
C5_Unchanged ==
    ( last.op = "sync" /\ last.result = "Ok" /\ last.persisted = 0 )
        => get_latest_exec_version(Db) = last.exec_version - 1

\* A successful run over a non-empty store persisted nothing.
C5_Witness ==
    /\ last.op = "sync" /\ last.result = "Ok" /\ last.persisted = 0
    /\ last.materialized > 0
    /\ entries # {}

\* C6: a run over a directory with no matching file fails with NoFilesFound,
\* computes no version, and leaves the rows and latest_exec_version() as
\* they were.
C6_NoSourceFound ==
    [][ ( dir = <<>> /\ last'.op = "sync" )
        => /\ last'.result = "NoFilesFound"
           /\ last'.exec_version = 0
           /\ entries' = entries /\ metadata' = metadata
           /\ get_latest_exec_version([ entries |-> entries', metadata |-> metadata' ])
                = get_latest_exec_version(Db) ]_vars

\* A run over an empty directory has failed with the store holding rows.
C6_Witness ==
    /\ last.op = "sync" /\ last.result = "NoFilesFound"
    /\ dir = <<>>
    /\ entries # {}

----------------------------------------------------------------------------
\* Properties of the store (checked under SpecStore).

HasMetadataRow(meta, e) ==
    /\ { m \in DOMAIN meta : SameKey(m, e) } = { MetaRow(e) }
    /\ meta[MetaRow(e)] = 1

\* C7 as claimed: after store_entries either every entry of the batch and its
\* metadata row are in the store, or the call failed and the store is as it
\* was.
C7_AllOrNothing ==
    [][ last'.op = "store"
        => IF last'.result = "Ok"
           THEN \A e \in Range(batch) :
                   e \in entries' /\ HasMetadataRow(metadata', e)
           ELSE entries' = entries /\ metadata' = metadata ]_vars

\* C7 as amended: after store_entries either every entry of the batch that no
\* later entry of the batch shares the key of is in the store with its
\* metadata row, or the call failed and the store is as it was.
C7_Atomic ==
    [][ last'.op = "store"
        => IF last'.result = "Ok"
           THEN \A e \in LastWrites(batch) :
                   e \in entries' /\ HasMetadataRow(metadata', e)
           ELSE entries' = entries /\ metadata' = metadata ]_vars

\* A batch of two entries failed in the database over a non-empty store.
C7_Witness ==
    /\ last.op = "store" /\ last.result = "Database"
    /\ last.given >= 2
    /\ entries # {}

Sorted(q) ==
    \A i, j \in 1..Len(q) :
        i < j => \/ q[i].date > q[j].date
                 \/ q[i].date = q[j].date /\ q[i].exec_version > q[j].exec_version

\* C8: entries_by_date_range(start, end) returns exactly the rows with
\* start <= date <= end, each once, by date descending and then version
\* descending, and nothing when start > end.
C8_RangeQuery ==
    \A start_date, end_date \in 0..(MaxDate + 1) :
        LET q == get_entries_by_date_range(Db, start_date, end_date)
            rows == { r \in entries : start_date <= r.date /\ r.date <= end_date }
        IN  /\ Range(q) = rows
            /\ Len(q) = Cardinality(rows)
            /\ Sorted(q)
            /\ (start_date > end_date => q = <<>>)

\* The store holds two versions of one date and a row of another date.
C8_Witness ==
    LET q == get_entries_by_date_range(Db, 1, MaxDate)
    IN  /\ Len(q) >= 3
        /\ \E i \in 1..(Len(q) - 1) : q[i].date = q[i + 1].date
        /\ Len(get_entries_by_date_range(Db, 1, 1)) \in 1..(Len(q) - 1)

\* C9: metadata() returns exactly one record per entry row, with the word
\* count of the row's content, and the metadata table holds no row without an
\* entry row.
C9_MetadataLockstep ==
    LET md == get_metadata(Db)
    IN  /\ Len(md) = Cardinality(entries)
        /\ \A r \in entries :
              \E i \in 1..Len(md) :
                  /\ md[i].exec_version = r.exec_version /\ md[i].date = r.date
                  /\ md[i].word_count = WordCountOf(r.content)
        /\ \A m \in DOMAIN metadata : \E r \in entries : SameKey(m, r)

\* A successful call has replaced the content of a row by one of another
\* word count.
C9_Witness ==
    /\ last.op = "store" /\ last.result = "Ok" /\ last.replaced
    /\ \E i \in 1..Len(get_metadata(Db)) : get_metadata(Db)[i].word_count = 2
    /\ \E i \in 1..Len(get_metadata(Db)) : get_metadata(Db)[i].word_count = 1

\* C10: latest_exec_version() is 0 for the empty store and the greatest
\* exec_version of a row otherwise.
C10_LatestExecVersion ==
    LET latest == get_latest_exec_version(Db)
    IN  /\ entries = {} => latest = 0
        /\ entries # {} =>
              /\ \E r \in entries : r.exec_version = latest
              /\ \A r \in entries : r.exec_version <= latest

\* The store holds several rows of one version, and two versions.
C10_Witness ==
    /\ get_latest_exec_version(Db) = 2
    /\ Cardinality(entries) = 3

\* C11: key uniqueness with upsert: after every store_entries call the store
\* holds at most one row per (exec_version, date); after a successful call
\* each key of the batch has exactly one row, holding the content of the last
\* entry of the batch with that key, and the rows of every other key are the
\* rows there were.
C11_KeyUniqueUpsert ==
    [][ last'.op = "store"
        => /\ \A r, s \in entries' : SameKey(r, s) => r = s
           /\ last'.result = "Ok" =>
                 /\ \A e \in LastWrites(batch) :
                        { r \in entries' : SameKey(r, e) } = {e}
                 /\ { r \in entries' : \A e \in Range(batch) : ~SameKey(r, e) }
                      = { r \in entries : \A e \in Range(batch) : ~SameKey(r, e) } ]_vars

\* A successful batch of two entries has left a single row: both had one key.
C11_Witness ==
    /\ last.op = "store" /\ last.result = "Ok"
    /\ last.given = 2
    /\ Cardinality(entries) = 1

----------------------------------------------------------------------------
\* Properties of the synchronization engine, continued (checked under Spec).

\* A file that yields a valid entry: readable text that is not blank, before
\* and after DiaryEntry::new has normalized it.
ValidFile(file) ==
    /\ ~TrimIsEmpty(file.raw)
    /\ ~TrimIsEmpty(JoinLines(StripFrontMatter(file.raw)))

ValidEntries(d, v) ==
    { DiaryEntryNew(v, d[i].date, d[i].raw) : i \in { k \in 1..Len(d) : ValidFile(d[k]) } }

\* C12: isolation of malformed files: a run over a directory holding at least
\* one valid file, in which no database call fails, succeeds, and every valid
\* entry that no stored entry has the (date, content) of is in the store after
\* it.
C12_MalformedIsolated ==
    [][ ( /\ last'.op = "sync"
          /\ \E i \in 1..Len(dir) : ValidFile(dir[i])
          /\ last'.result # "Database" )
        => /\ last'.result = "Ok"
           /\ \A e \in ValidEntries(dir, last'.exec_version) :
                 (\E r \in entries : DiaryEntryEq(r, e)) \/ e \in entries' ]_vars

\* The files of d at the positions K, in the order of d.
FilesAt(d, K) ==
    LET F[i \in 0..Len(d)] ==
            IF i = 0 THEN <<>>
            ELSE IF i \in K THEN Append(F[i - 1], d[i]) ELSE F[i - 1]
    IN  F[Len(d)]

NotMaterialized(d) == { i \in 1..Len(d) : ~process_single_file_ok(d[i]) }

\* C13: cleanup scope: after a successful run every collected file whose
\* materialization failed is still in the directory: the files gone are
\* among the files that were materialized.
C13_CleanupScope ==
    [][ ( last'.op = "sync" /\ last'.result = "Ok" )
        => \E K \in SUBSET (1..Len(dir)) :
              /\ NotMaterialized(dir) \subseteq K
              /\ dir' = FilesAt(dir, K) ]_vars

\* C14: cleanup failures are not escalated: whatever subset of the removals
\* fails, a run that succeeds when every removal succeeds still succeeds, with
\* the same result and the same rows in the store, and every file whose
\* removal did not fail is gone.
C14_CleanupNotEscalated ==
    \E p \in { SyncPlan(Db, dir) } :
        \E clean \in { SyncReturn(p, Db, dir, [ fault |-> "none", failAt |-> 0, stuck |-> {} ]) } :
            clean.result = "Ok" =>
                \A K \in SUBSET (1..Len(dir)) :
                    \E o \in { SyncReturn(p, Db, dir, [ fault |-> "none", failAt |-> 0, stuck |-> K ]) } :
                        /\ o.result = "Ok"
                        /\ o.start_date = clean.start_date /\ o.end_date = clean.end_date
                        /\ o.db = clean.db
                        /\ \A i \in 1..Len(p.new_entries) : p.new_entries[i] \in o.db.entries
                             \/ \E j \in (i + 1)..Len(p.new_entries) :
                                    SameKey(p.new_entries[j], p.new_entries[i])
                        /\ o.dir = FilesAt(dir, K)

\* A run has succeeded and persisted rows while some removals failed and
\* others did not.
C14_Witness ==
    /\ last.op = "sync" /\ last.result = "Ok"
    /\ last.persisted >= 1
    /\ last.removed >= 1
    /\ dir # <<>>

MaterializedDates(d) == { d[i].date : i \in { k \in 1..Len(d) : process_single_file_ok(d[k]) } }

EarliestDate(S) == CHOOSE x \in S : \A y \in S : x <= y

LatestDate(S) == CHOOSE x \in S : \A y \in S : x >= y

\* C15: result of synchronize: a successful run returns (min_date, max_date),
\* the earliest and the latest date among the entries it materialized, so
\* min_date <= max_date.
C15_ResultSpan ==
    [][ ( last'.op = "sync" /\ last'.result = "Ok" )
        => /\ last'.start_date = EarliestDate(MaterializedDates(dir))
           /\ last'.end_date = LatestDate(MaterializedDates(dir))
           /\ last'.start_date <= last'.end_date ]_vars

\* C20: overlap fetch span: in every run that fetches the stored entries, the
\* fetch is for the span from the earliest to the latest date materialized,
\* so every stored entry with the date of a materialized entry is in the
\* comparison set.
C20_OverlapSpan ==
    [][ ( last'.op = "sync" /\ last'.materialized > 0 )
        => \A r \in entries :
              r.date \in MaterializedDates(dir)
                  => r \in Range(get_entries_by_date_range(Db, last'.start_date,
                                                            last'.end_date)) ]_vars

----------------------------------------------------------------------------
\* Properties of opening the store (checked under SpecOpen).

RECURSIVE Ascending(_, _)
Ascending(from, to) ==
    IF from > to THEN <<>> ELSE <<from>> \o Ascending(from + 1, to)

\* The greatest ordinal schema_migrations holds, 0 when it holds none.
RecordedVersion(sch) ==
    LET held == { v \in 1..Len(MIGRATIONS) : BagIn(v, sch.versions) }
    IN  IF held = {} THEN 0 ELSE CHOOSE v \in held : \A w \in held : w <= v

\* C16: migrations are applied exactly once: after a successful open
\* schema_migrations holds each ordinal 1..N exactly once; the open applied
\* the ordinals above the version it found, in ascending order; an open of a
\* store already at version N succeeds, applies none and changes no entry or
\* metadata row.
C16_MigrationsOnce ==
    [][ last'.op = "open"
        => /\ last'.result = "Ok" =>
                 /\ schema'.versions = SetToBag(1..Len(MIGRATIONS))
                 /\ schema'.tables = Range(MIGRATIONS)
                 /\ last'.applied = Ascending(RecordedVersion(schema) + 1, Len(MIGRATIONS))
           /\ RecordedVersion(schema) = Len(MIGRATIONS) =>
                 /\ last'.fault = "none" => last'.result = "Ok"
                 /\ last'.applied = <<>>
                 /\ entries' = entries /\ metadata' = metadata
                 /\ schema' = schema ]_vars

C16_Witness ==
    /\ last.op = "open" /\ last.result = "Ok"
    /\ last.applied = <<>>
    /\ entries # {}

----------------------------------------------------------------------------
\* Properties of the store, continued (checked under SpecStore).

\* C17: no empty content in storage: after every store_entries call every
\* row has content that is not blank; a batch holding an entry whose
\* normalized content is blank is rejected with ContentIntegrity and no row is
\* written.
C17_NoEmptyContent ==
    [][ last'.op = "store"
        => /\ \A r \in entries' : ~TrimIsEmpty(r.content)
           /\ (\E e \in Range(batch) : TrimIsEmpty(e.content)) =>
                 /\ last'.result = "ContentIntegrity"
                 /\ entries' = entries /\ metadata' = metadata ]_vars

\* A batch of two entries has been rejected over a store holding rows.
C17_Witness ==
    /\ last.op = "store" /\ last.result = "ContentIntegrity"
    /\ last.given = 2
    /\ entries # {}

----------------------------------------------------------------------------
\* Properties of the legacy merger (checked under SpecMerge).

\* The matching files of d from the greatest name down.
RECURSIVE NamesDescending(_)
NamesDescending(S) ==
    IF S = {} THEN <<>>
    ELSE LET top == CHOOSE f \in S : \A g \in S : g.date <= f.date
         IN  <<top>> \o NamesDescending(S \ {top})

\* The text of the files q, each followed by its line terminator, with the
\* separator between consecutive files.
RECURSIVE Merged(_)
Merged(q) ==
    IF q = <<>> THEN <<>>
    ELSE Head(q).raw \o <<"\n">>
           \o (IF Len(q) > 1 THEN Separator ELSE <<>>) \o Merged(Tail(q))

\* C18: after a successful run over a directory with at least one matching
\* file the output file holds the content of every matching file, in
\* descending filename order with the separator between consecutive files,
\* followed by the content it had before the run, and no matching file is
\* left in the directory; the other files are.
C18_MergedOutput ==
    [][ ( /\ last'.op = "merge" /\ last'.result = "Ok" )
        => /\ \E i \in 1..Len(dir) : Matches(dir[i])
           /\ output'.exists
           /\ output'.text =
                 Merged(NamesDescending({ f \in Range(dir) : Matches(f) }))
                   \o (IF output.exists THEN output.text ELSE <<>>)
           /\ dir' = FilesAt(dir, { i \in 1..Len(dir) : ~Matches(dir[i]) }) ]_vars

\* C19: a run over a directory that exists, can be listed and holds no
\* matching file fails with NoFilesFound: the output file is neither created
\* nor modified and no file is removed.
C19_EmptyMatch ==
    [][ ( /\ last'.op = "merge" /\ last'.fault \notin {"directory", "read_dir"}
          /\ \A i \in 1..Len(dir) : ~Matches(dir[i]) )
        => /\ last'.result = "NoFilesFound"
           /\ output' = output
           /\ dir' = dir ]_vars

\* A run has failed with NoFilesFound over a directory that holds a file and
\* has no output file.
C19_Witness ==
    /\ last.op = "merge" /\ last.result = "NoFilesFound"
    /\ dir # <<>>
    /\ ~output.exists

----------------------------------------------------------------------------
\* Properties of the shared connection (checked under SpecThreads).

Writers == { t \in Threads : conc.th[t].pc = "storing" }

Readers == { t \in Threads : conc.th[t].pc \in {"reading", "read"} }

\* C22: reader/writer exclusion: at most one thread is inside store_batch at
\* a time and none is inside a query then; and what a query returns is what
\* it returns on the committed rows: none or all of the rows of a batch.
C22_ReaderWriterExclusion ==
    [][ /\ Cardinality(Writers') <= 1
        /\ Writers' # {} => Readers' = {}
        /\ \A t \in Threads :
              ( conc.th[t].pc = "reading" /\ conc'.th[t].pc = "read" )
                  => conc'.th[t].seen = RunQuery(conc.th[t].kind, Db) ]_vars

\* Two threads hold the connection for a query together, over a store that
\* holds a committed batch, and one has its result.
C22_Witness ==
    /\ Cardinality(Readers) >= 2
    /\ \E t \in Threads : conc.th[t].pc = "read" /\ conc.th[t].seen # <<>>
    /\ entries # {}

----------------------------------------------------------------------------
\* Properties of the synchronization engine, concluded (checked under Spec).

\* C23: synchronize always ends in a value: no run ends in a panic, also
\* when files were collected and none of them was materialized.
C23_AlwaysReturns == last.op = "sync" => last.result # "Panic"

\* The metadata rows of the row r of diary_entries, with their counts.
MetadataOf(meta, r) ==
    [ m \in { k \in DOMAIN meta : SameKey(k, r) } |-> meta[m] ]

\* C24: append-only versioning: every row present before a run is present
\* after it with the same version, date and content and the same metadata
\* rows, and the rows the run adds all carry the version of the run.
C24_AppendOnly ==
    [][ last'.op = "sync"
        => /\ entries \subseteq entries'
           /\ \A r \in entries : MetadataOf(metadata', r) = MetadataOf(metadata, r)
           /\ \A r \in entries' \ entries :
                 /\ r.exec_version = last'.exec_version
                 /\ \A s \in entries : s.exec_version < r.exec_version ]_vars

\* A successful run has added a row for a date of which an earlier version
\* is stored, and that row is still there.
C24_Witness ==
    /\ last.op = "sync" /\ last.result = "Ok" /\ last.persisted > 0
    /\ \E r, s \in entries :
          /\ r.date = s.date /\ r.content # s.content
          /\ r.exec_version < s.exec_version
          /\ s.exec_version = last.exec_version

\* C25: a failed synchronize changes nothing: when a run returns an error
\* the entry and metadata rows are as before the call and every source file
\* is still there.
C25_FailureChangesNothing ==
    [][ ( last'.op = "sync" /\ last'.result \notin {"Ok", "Panic"} )
        => /\ entries' = entries
           /\ metadata' = metadata
           /\ dir' = dir ]_vars

\* A run over a non-empty store has failed in the store, after the first
\* statements of a batch of two entries.
C25_Witness ==
    /\ last.op = "sync" /\ last.result = "Database" /\ last.fault = "store"
    /\ last.materialized = 2
    /\ entries # {} /\ dir # <<>>

\* The content of the entry made from the file.
NormalizedContent(file) == JoinLines(StripFrontMatter(file.raw))

\* C26: no source file is removed before its content is stored: after a
\* successful run the store holds, for every file the run removed, a row
\* with the date and the normalized content of the file.  Stated for the
\* removed files that were materialized.
C26_RemovedIsStored ==
    [][ ( last'.op = "sync" /\ last'.result = "Ok" )
        => \E K \in SUBSET (1..Len(dir)) :
              /\ dir' = FilesAt(dir, K)
              /\ \A i \in (1..Len(dir)) \ K :
                    process_single_file_ok(dir[i])
                        => \E r \in entries' :
                              /\ r.date = dir[i].date
                              /\ r.content = NormalizedContent(dir[i]) ]_vars

====
